---- MODULE Spec2Model ----
(***************************************************************************)
(* Packed-ternary batched matrix multiply: the Triton kernel               *)
(* _ternary_bmm_kernel and its host wrapper batched_bitmat                 *)
(* (src/bitnetb158/triton_kernels/bitmat_kernel.py).                       *)
(*                                                                         *)
(* Memory is modelled as flat buffers addressed by element offset, tensors *)
(* as (shape, stride, device) triples, and one kernel launch as a set of   *)
(* program instances (pid, pid_batch) that interleave at the granularity   *)
(* setup / one reduction chunk / masked store.  Values are integers:       *)
(* operand A holds small integers and the accumulator is exact.            *)
(***************************************************************************)
EXTENDS Integers, Sequences, FiniteSets, TLC

(***************************************************************************)
(* Bounds of the model.                                                    *)
(***************************************************************************)
MaxBatch == 2
MaxM == 3
MaxN == 3
\* B_packed has at most MaxKUnits packed columns, so K <= 4 * MaxKUnits
MaxKUnits == 3
\* at most this many program instances in one launch
MaxPrograms == 4
\* number of data patterns the operands are drawn from
NumSeeds == 2
\* tile sizes of the scaled-down launch configuration
TileM == 2
TileN == 2
\* BLOCK_SIZE_K of the scaled configuration, in packed units of 4 codes
TileKUnits == 2
GroupM == 2
\* the tile mapping is walked on grids of up to MaxTileRows x MaxTileCols
\* tiles and group sizes up to MaxGroupM next to the configured one
MaxTileRows == 18
MaxTileCols == 3
MaxGroupM == 3
\* the addressing is walked on B_packed of up to MaxPackedCols columns
MaxPackedCols == 22

(***************************************************************************)
(* Launch configuration (triton.autotune configs) and the default packing  *)
(* ratio of batched_bitmat.                                                *)
(***************************************************************************)
DefaultNBits == 4

KernelConfig ==
  [BLOCK_SIZE_M |-> 128, BLOCK_SIZE_N |-> 128, BLOCK_SIZE_K |-> 64,
   GROUP_SIZE_M |-> 8]

\* The same meta-parameters scaled down so that a launch of a few
\* elements still has several tiles, several reduction chunks and
\* partial tiles; BLOCK_SIZE_K stays a multiple of 4 as 64 is.
ScaledConfig ==
  [BLOCK_SIZE_M |-> TileM, BLOCK_SIZE_N |-> TileN,
   BLOCK_SIZE_K |-> 4 * TileKUnits, GROUP_SIZE_M |-> GroupM]

(***************************************************************************)
(* Arithmetic helpers.                                                     *)
(***************************************************************************)
cdiv(x, y) == (x + y - 1) \div y

Min(x, y) == IF x < y THEN x ELSE y

RECURSIVE Pow2(_)
Pow2(n) == IF n = 0 THEN 1 ELSE 2 * Pow2(n - 1)

\* sum of f[0] .. f[n-1]
RECURSIVE SumFn(_, _)
SumFn(f, n) == IF n = 0 THEN 0 ELSE f[n - 1] + SumFn(f, n - 1)

(***************************************************************************)
(* Grid-to-tile mapping (grouped ordering).  ka is the record of kernel    *)
(* arguments and meta-parameters.                                          *)
(***************************************************************************)
num_pid_m(ka) == cdiv(ka.M, ka.BLOCK_SIZE_M)

num_pid_n(ka) == cdiv(ka.N, ka.BLOCK_SIZE_N)

num_pid_in_group(ka) == ka.GROUP_SIZE_M * num_pid_n(ka)

group_id(ka, pid) == pid \div num_pid_in_group(ka)

first_pid_m(ka, pid) == group_id(ka, pid) * ka.GROUP_SIZE_M

\* mutant: the group size is not clamped at the bottom edge
group_size_m_unclamped(ka, pid) == ka.GROUP_SIZE_M

group_size_m(ka, pid) ==
  Min(num_pid_m(ka) - first_pid_m(ka, pid), ka.GROUP_SIZE_M)

pid_m(ka, pid) == first_pid_m(ka, pid) + (pid % group_size_m(ka, pid))

pid_n(ka, pid) == (pid % num_pid_in_group(ka)) \div group_size_m(ka, pid)

(***************************************************************************)
(* Pointer arithmetic.  i, j index the rows and columns of the tile, kk    *)
(* the rows of the reduction block (offs_k); a_adv and b_adv are what the  *)
(* loop has added to a_ptrs and b_ptrs so far.  Addresses are element      *)
(* offsets from a_ptr, b_ptr and c_ptr.                                    *)
(***************************************************************************)
offs_am(ka, pm, i) == (pm * ka.BLOCK_SIZE_M + i) % ka.M

offs_bn(ka, pn, j) == (pn * ka.BLOCK_SIZE_N + j) % ka.N

\* mutant: the batch offset of A is left out
a_ptrs_no_batch(ka, pm, pb, i, kk, a_adv) ==
  (offs_am(ka, pm, i) * ka.stride_am + kk * ka.stride_ak) + a_adv

a_ptrs(ka, pm, pb, i, kk, a_adv) ==
  (offs_am(ka, pm, i) * ka.stride_am + kk * ka.stride_ak)
    + pb * ka.stride_batch_a + a_adv

b_ptrs(ka, pn, kk, j, b_adv) ==
  ((kk \div ka.n_bits) * ka.stride_bk + offs_bn(ka, pn, j) * ka.stride_bn)
    + b_adv

\* mutant: one bit per code instead of two
shifter_one_bit(ka, kk) == kk % ka.n_bits

shifter(ka, kk) == (kk % ka.n_bits) * 2

\* mutant: the load of A is not masked along K
a_mask_unmasked(ka, kk, k) == TRUE

\* mask of the load of A in reduction chunk k
a_mask(ka, kk, k) == kk < ka.K - k * ka.BLOCK_SIZE_K

a_step(ka) == ka.BLOCK_SIZE_K * ka.stride_ak

b_step(ka) == (ka.BLOCK_SIZE_K \div ka.n_bits) * ka.stride_bk

num_chunks(ka) == cdiv(ka.K, ka.BLOCK_SIZE_K)

(***************************************************************************)
(* Unpacking.  unit is a signed 8-bit integer; >> on it is an arithmetic   *)
(* shift, i.e. floor division by a power of two.                           *)
(***************************************************************************)
shift_mask(unit, sh) == (unit \div Pow2(sh)) % 4

where_minus_one(code) == IF code = 2 THEN -1 ELSE code

unpack(unit, sh) == where_minus_one(shift_mask(unit, sh))

(***************************************************************************)
(* Loads.  A load from an address outside the buffer is undefined: it      *)
(* yields whatever the memory there holds (junk[addr]) or faults.          *)
(***************************************************************************)
InBuf(mem, addr) == addr \in DOMAIN mem

Load(mem, addr, junk) ==
  IF InBuf(mem, addr) THEN mem[addr]
  ELSE IF addr \in DOMAIN junk THEN junk[addr] ELSE 0

TileRows(ka) == 0 .. ka.BLOCK_SIZE_M - 1

TileCols(ka) == 0 .. ka.BLOCK_SIZE_N - 1

BlockK(ka) == 0 .. ka.BLOCK_SIZE_K - 1

\* the addresses of packed B that one chunk of instance st loads
b_addrs(ka, st) ==
  { b_ptrs(ka, st.pid_n, kk, j, st.b_adv) : kk \in BlockK(ka), j \in TileCols(ka) }

\* the addresses of A that one chunk of instance st loads (mask applied)
a_addrs(ka, st) ==
  { a_ptrs(ka, st.pid_m, st.pid_batch, i, kk, st.a_adv) :
      i \in TileRows(ka), kk \in { x \in BlockK(ka) : a_mask(ka, x, st.k) } }

(***************************************************************************)
(* One program instance.                                                   *)
(***************************************************************************)
\* lines 60-103: tile coordinates, pointers, zeroed accumulator
Setup(ka, pid, pb) ==
  [pc |-> "loop", pid |-> pid, pid_batch |-> pb,
   pid_m |-> pid_m(ka, pid), pid_n |-> pid_n(ka, pid),
   k |-> 0, a_adv |-> 0, b_adv |-> 0,
   accumulator |-> [ij \in TileRows(ka) \X TileCols(ka) |-> 0]]

a_tile(ka, memA, st, i, kk, junk) ==
  IF a_mask(ka, kk, st.k)
  THEN Load(memA, a_ptrs(ka, st.pid_m, st.pid_batch, i, kk, st.a_adv), junk)
  ELSE 0

b_tile(ka, memB, st, kk, j, junk) ==
  unpack(Load(memB, b_ptrs(ka, st.pid_n, kk, j, st.b_adv), junk), shifter(ka, kk))

dot(ka, memA, memB, st, i, j, junk) ==
  SumFn([kk \in BlockK(ka) |->
           a_tile(ka, memA, st, i, kk, junk) * b_tile(ka, memB, st, kk, j, junk)],
        ka.BLOCK_SIZE_K)

\* lines 107-125: one iteration of the reduction loop
LoopBody(ka, memA, memB, st, junk) ==
  [st EXCEPT
     !.accumulator = [ij \in TileRows(ka) \X TileCols(ka) |->
                        st.accumulator[ij] + dot(ka, memA, memB, st, ij[1], ij[2], junk)],
     !.a_adv = st.a_adv + a_step(ka),
     !.b_adv = st.b_adv + b_step(ka),
     !.k = st.k + 1]

\* accumulator.to(tl.float16) on an integer value: exact up to 2048, then
\* rounded to the nearest representable multiple (ties to even), and
\* saturating to the largest finite value's neighbourhood is not reached
\* by the magnitudes of this model.
RECURSIVE Spacing16(_)
Spacing16(x) == IF x < 2048 THEN 1 ELSE 2 * Spacing16(x \div 2)

RoundEven(x, s) ==
  LET q == x \div s
      r == x % s
  IN IF 2 * r < s THEN q * s
     ELSE IF 2 * r > s THEN (q + 1) * s
     ELSE IF q % 2 = 0 THEN q * s ELSE (q + 1) * s

to_float16(x) ==
  LET m == IF x < 0 THEN -x ELSE x
      v == RoundEven(m, Spacing16(m))
  IN IF x < 0 THEN -v ELSE v

\* mutant: the commented-out hook is live
leaky_relu(x) == IF x >= 0 THEN x ELSE -((-x) \div 100)

epilogue_with_leaky_relu(ka, acc) ==
  IF ka.ACTIVATION = "leaky_relu" THEN to_float16(leaky_relu(acc)) ELSE to_float16(acc)

\* lines 126-130: the activation hook is commented out; the accumulator is
\* narrowed as it is, whatever ACTIVATION holds
epilogue(ka, acc) == to_float16(acc)

offs_cm(ka, pm, i) == pm * ka.BLOCK_SIZE_M + i

offs_cn(ka, pn, j) == pn * ka.BLOCK_SIZE_N + j

c_ptrs(ka, pm, pn, pb, i, j) ==
  ka.stride_cm * offs_cm(ka, pm, i) + ka.stride_cn * offs_cn(ka, pn, j)
    + pb * ka.stride_batch_c

\* mutant: the store is masked on the rows only
c_mask_rows_only(ka, pm, pn, i, j) == offs_cm(ka, pm, i) < ka.M

\* mutant: the store is masked on the columns only
c_mask_cols_only(ka, pm, pn, i, j) == offs_cn(ka, pn, j) < ka.N

c_mask(ka, pm, pn, i, j) ==
  (offs_cm(ka, pm, i) < ka.M) /\ (offs_cn(ka, pn, j) < ka.N)

\* lines 134-143: the lanes of the masked store of instance st
StoreLanes(ka, st) ==
  { [inst |-> <<st.pid, st.pid_batch>>,
     row |-> offs_cm(ka, st.pid_m, ij[1]),
     col |-> offs_cn(ka, st.pid_n, ij[2]),
     addr |-> c_ptrs(ka, st.pid_m, st.pid_n, st.pid_batch, ij[1], ij[2]),
     val |-> epilogue(ka, st.accumulator[ij])] :
      ij \in { x \in TileRows(ka) \X TileCols(ka) :
                 c_mask(ka, st.pid_m, st.pid_n, x[1], x[2]) } }

\* the buffer after the lanes are stored
ApplyStore(mem, lanes) ==
  [x \in DOMAIN mem |->
     IF \E l \in lanes : l.addr = x
     THEN (CHOOSE l \in lanes : l.addr = x).val
     ELSE mem[x]]

(***************************************************************************)
(* Tensors (torch): shape, stride in elements, device.                     *)
(***************************************************************************)
dim(t) == Len(t.shape)

last_dim(t) == t.shape[Len(t.shape)]

RECURSIVE numel_from(_, _)
numel_from(shape, d) ==
  IF d > Len(shape) THEN 1 ELSE shape[d] * numel_from(shape, d + 1)

numel(shape) == numel_from(shape, 1)

\* row-major strides of a freshly allocated tensor
contiguous_strides(shape) ==
  [d \in 1 .. Len(shape) |-> numel_from(shape, d + 1)]

\* torch's is_contiguous: the strides are the row-major ones, the stride of
\* a dimension of size 1 not counting
is_contiguous(t) ==
  \A d \in 1 .. Len(t.shape) :
     t.shape[d] # 1 =>
       t.stride[d] =
         numel_from([e \in 1 .. Len(t.shape) |->
                       IF t.shape[e] = 1 THEN 1 ELSE t.shape[e]], d + 1)

\* b.t() of a 2-D tensor
transpose2(t) ==
  [shape |-> <<t.shape[2], t.shape[1]>>,
   stride |-> <<t.stride[2], t.stride[1]>>,
   device |-> t.device]

\* b.expand(n, rows, cols) of a 2-D tensor: a view with batch stride 0
expand3(t, n) ==
  [shape |-> <<n, t.shape[1], t.shape[2]>>,
   stride |-> <<0, t.stride[1], t.stride[2]>>,
   device |-> t.device]

empty_tensor(shape, device) ==
  [shape |-> shape, stride |-> contiguous_strides(shape), device |-> device]

(***************************************************************************)
(* State.                                                                  *)
(***************************************************************************)
VARIABLES
  a,               \* tensor A as passed to batched_bitmat
  b,               \* tensor B_packed as passed to batched_bitmat
  aMem,            \* the buffer behind a, by element offset
  bMem,            \* the buffer behind b (signed 8-bit units), by element offset
  int_per_2_bits,  \* argument int_per_2_bits (n_bits of the kernel)
  activation,      \* argument activation
  META,            \* the meta-parameters the autotuner launches with
  hpc,             \* where the host call is
  err,             \* the message of the assertion that failed, or ""
  c,               \* tensor C, once allocated
  cMem,            \* the buffer behind c
  procs,           \* the program instances of the launch, by (pid, pid_batch)
  stored,          \* every lane any instance has stored so far
  probe            \* argument and result of the pure-function specifications

vars ==
  <<a, b, aMem, bMem, int_per_2_bits, activation, META, hpc, err, c, cMem,
    procs, stored, probe>>

inputs == <<a, b, aMem, bMem, int_per_2_bits, activation, META>>

EmptyMem == [x \in {} |-> 0]

NoTensor == [shape |-> <<>>, stride |-> <<>>, device |-> "none"]

NoProbe == [kind |-> "none"]

\* what the memory past the end of a buffer may hold: each 2-bit position
\* sees each of the four codes in one of these bytes
GarbageBytes == {0, 27, -28, -1}

\* what freshly allocated (torch.empty) memory may hold
UninitFill == {-9, 9}

(***************************************************************************)
(* batched_bitmat.                                                         *)
(***************************************************************************)
\* mutant: the device assertion is missing
FailedAssert_no_device_check(ta, tb, n) ==
  IF dim(ta) # 3 THEN "Matrix A must be 3D"
  ELSE IF dim(tb) # 2 THEN "Matrix B must be 2D"
  ELSE IF last_dim(tb) * n # last_dim(ta) THEN "Incompatible dimensions"
  ELSE IF ~is_contiguous(tb) THEN "A must be contiguous"
  ELSE IF ~is_contiguous(ta) THEN "B must be contiguous"
  ELSE ""

\* lines 154-159: the message of the first assertion that fails, "" if none
FailedAssert(ta, tb, n) ==
  IF dim(ta) # 3 THEN "Matrix A must be 3D"
  ELSE IF dim(tb) # 2 THEN "Matrix B must be 2D"
  ELSE IF last_dim(tb) * n # last_dim(ta) THEN "Incompatible dimensions"
  ELSE IF ~is_contiguous(tb) THEN "A must be contiguous"
  ELSE IF ~is_contiguous(ta) THEN "B must be contiguous"
  ELSE IF tb.device # ta.device THEN "A and B must be on the same device"
  ELSE ""

\* lines 164-165: b = b.t(); b = b.expand(a.shape[0], b.shape[-2], b.shape[-1])
b_view(ta, tb) == expand3(transpose2(tb), ta.shape[1])

\* line 167
c_alloc(ta, tb) ==
  empty_tensor(<<ta.shape[1], ta.shape[2], tb.shape[1]>>, b_view(ta, tb).device)

\* lines 178-196: the arguments the kernel is launched with
kernel_args(ta, tb, tc, n, act, meta) ==
  [M |-> ta.shape[2], N |-> tb.shape[1], K |-> ta.shape[3], n_bits |-> n,
   stride_am |-> ta.stride[2], stride_ak |-> ta.stride[3],
   stride_bk |-> b_view(ta, tb).stride[2], stride_bn |-> b_view(ta, tb).stride[3],
   stride_cm |-> tc.stride[2], stride_cn |-> tc.stride[3],
   stride_batch_a |-> ta.stride[1],
   stride_batch_b |-> b_view(ta, tb).stride[1],
   stride_batch_c |-> tc.stride[1],
   BLOCK_SIZE_M |-> meta.BLOCK_SIZE_M, BLOCK_SIZE_N |-> meta.BLOCK_SIZE_N,
   BLOCK_SIZE_K |-> meta.BLOCK_SIZE_K, GROUP_SIZE_M |-> meta.GROUP_SIZE_M,
   ACTIVATION |-> act]

\* lines 169-172: the launch grid
grid(ta, tb, meta) ==
  (0 .. cdiv(ta.shape[2], meta.BLOCK_SIZE_M) * cdiv(tb.shape[1], meta.BLOCK_SIZE_N) - 1)
    \X (0 .. ta.shape[1] - 1)

KArgs == kernel_args(a, b, c, int_per_2_bits, activation, META)

Ready == [pc |-> "ready"]

\* batched_bitmat up to and including the launch
Call ==
  /\ hpc = "call"
  /\ IF FailedAssert(a, b, int_per_2_bits) # ""
     THEN /\ hpc' = "error"
          /\ err' = FailedAssert(a, b, int_per_2_bits)
          /\ UNCHANGED <<c, cMem, procs>>
     ELSE /\ hpc' = "launched"
          /\ c' = c_alloc(a, b)
          /\ \E fill \in UninitFill :
               cMem' = [x \in 0 .. numel(c_alloc(a, b).shape) - 1 |-> fill]
          /\ procs' = [inst \in grid(a, b, META) |-> Ready]
          /\ UNCHANGED err
  /\ UNCHANGED <<inputs, stored, probe>>

\* the addresses outside the buffer of packed B that the next chunk of st
\* loads (line 109 loads B without a mask); the loads of A are wrapped
\* modulo M and masked along K
OutOfBufferIn(ka, mb, st) == { x \in b_addrs(ka, st) : ~InBuf(mb, x) }

OutOfBuffer(ka, st) == OutOfBufferIn(ka, bMem, st)

\* the loads of A never leave its buffer
ALoadsInBuffer ==
  \A inst \in DOMAIN procs :
     (procs[inst].pc = "loop" /\ procs[inst].k < num_chunks(KArgs)) =>
       \A x \in a_addrs(KArgs, procs[inst]) : InBuf(aMem, x)

ProgramSetup(inst) ==
  /\ hpc = "launched"
  /\ procs[inst].pc = "ready"
  /\ procs' = [procs EXCEPT ![inst] = Setup(KArgs, inst[1], inst[2])]
  /\ UNCHANGED <<inputs, hpc, err, c, cMem, stored, probe>>

ProgramLoop(inst) ==
  /\ hpc = "launched"
  /\ procs[inst].pc = "loop"
  /\ procs[inst].k < num_chunks(KArgs)
  /\ \E junk \in [OutOfBuffer(KArgs, procs[inst]) -> GarbageBytes] :
       procs' = [procs EXCEPT ![inst] = LoopBody(KArgs, aMem, bMem, @, junk)]
  /\ UNCHANGED <<inputs, hpc, err, c, cMem, stored, probe>>

\* a load outside the buffer may hit unmapped memory: the launch aborts
ProgramFault(inst) ==
  /\ hpc = "launched"
  /\ procs[inst].pc = "loop"
  /\ procs[inst].k < num_chunks(KArgs)
  /\ OutOfBuffer(KArgs, procs[inst]) # {}
  /\ procs' = [procs EXCEPT ![inst].pc = "fault"]
  /\ hpc' = "device_error"
  /\ UNCHANGED <<inputs, err, c, cMem, stored, probe>>

ProgramStore(inst) ==
  /\ hpc = "launched"
  /\ procs[inst].pc = "loop"
  /\ procs[inst].k = num_chunks(KArgs)
  /\ cMem' = ApplyStore(cMem, StoreLanes(KArgs, procs[inst]))
  /\ stored' = stored \cup StoreLanes(KArgs, procs[inst])
  /\ procs' = [procs EXCEPT ![inst].pc = "done"]
  /\ UNCHANGED <<inputs, hpc, err, c, probe>>

\* the call returns c once every instance of the launch has finished
Return ==
  /\ hpc = "launched"
  /\ \A inst \in DOMAIN procs : procs[inst].pc = "done"
  /\ hpc' = "returned"
  /\ UNCHANGED <<inputs, err, c, cMem, procs, stored, probe>>

(***************************************************************************)
(* Operands the calls are made with.                                       *)
(***************************************************************************)
APattern(s, bi, m, k) ==
  IF s = 0 /\ bi = 0 THEN 0 ELSE ((s + 2 * bi + 3 * m + k * k) % 5) - 2

\* the ternary code (0, 1 or 2) of weight (n, k)
BCodePattern(s, n, k) == (s + n + k + (k \div 3)) % 3

\* the signed 8-bit unit holding codes k = 4u .. 4u+3 of row n
BUnitPattern(s, n, u) ==
  LET v == SumFn([p \in 0 .. 3 |-> BCodePattern(s, n, 4 * u + p) * Pow2(2 * p)], 4)
  IN IF v >= 128 THEN v - 256 ELSE v

ATensor(variant, nb, m, k) ==
  CASE variant = "plain" -> empty_tensor(<<nb, m, k>>, "cuda:0")
    [] variant = "transposed" ->
         [shape |-> <<nb, m, k>>, stride |-> <<m * k, 1, m>>, device |-> "cuda:0"]
    [] variant = "rank2" -> empty_tensor(<<m, k>>, "cuda:0")

BTensor(variant, n, kp, dev) ==
  CASE variant = "plain" -> empty_tensor(<<n, kp>>, dev)
    [] variant = "transposed" ->
         [shape |-> <<n, kp>>, stride |-> <<1, n>>, device |-> dev]
    [] variant = "rank3" -> empty_tensor(<<1, n, kp>>, dev)
    [] variant = "wide" -> empty_tensor(<<n, kp + 1>>, dev)

\* element offset of index idx in tensor t
Offset(t, idx) == SumFn([d \in 0 .. Len(idx) - 1 |-> idx[d + 1] * t.stride[d + 1]], Len(idx))

Indices(t) ==
  IF Len(t.shape) = 2
  THEN { <<x, y>> : x \in 0 .. t.shape[1] - 1, y \in 0 .. t.shape[2] - 1 }
  ELSE { <<x, y, z>> : x \in 0 .. t.shape[1] - 1, y \in 0 .. t.shape[2] - 1,
                       z \in 0 .. t.shape[3] - 1 }

IndexAt(t, addr) == CHOOSE idx \in Indices(t) : Offset(t, idx) = addr

AMemory(t, s) ==
  [addr \in 0 .. numel(t.shape) - 1 |->
     LET idx == IndexAt(t, addr)
     IN IF Len(idx) = 3 THEN APattern(s, idx[1], idx[2], idx[3])
        ELSE APattern(s, 0, idx[1], idx[2])]

BMemory(t, s) ==
  [addr \in 0 .. numel(t.shape) - 1 |->
     LET idx == IndexAt(t, addr)
     IN IF Len(idx) = 2 THEN BUnitPattern(s, idx[1], idx[2])
        ELSE BUnitPattern(s, idx[2], idx[3])]

Activations == {"", "leaky_relu", "gelu"}

Init ==
  \E nb \in 1 .. MaxBatch, m \in 1 .. MaxM, n \in 1 .. MaxN, ku \in 1 .. MaxKUnits,
     seed \in 0 .. NumSeeds - 1, act \in Activations,
     va \in {"plain", "transposed", "rank2"},
     vb \in {"plain", "transposed", "rank3", "wide"},
     dev \in {"cuda:0", "cuda:1"} :
    /\ cdiv(m, ScaledConfig.BLOCK_SIZE_M) * cdiv(n, ScaledConfig.BLOCK_SIZE_N) * nb
         <= MaxPrograms
    \* every data pattern on well-formed operands; the other activation
    \* tags and the other operand layouts on the last pattern
    /\ \/ va = "plain" /\ vb = "plain" /\ dev = "cuda:0" /\ act = ""
       \/ seed = NumSeeds - 1
            /\ (act = "" \/ (va = "plain" /\ vb = "plain" /\ dev = "cuda:0"))
    /\ a = ATensor(va, nb, m, DefaultNBits * ku)
    /\ b = BTensor(vb, n, ku, dev)
    /\ aMem = AMemory(ATensor(va, nb, m, DefaultNBits * ku), seed)
    /\ bMem = BMemory(BTensor(vb, n, ku, dev), seed)
    /\ int_per_2_bits = DefaultNBits
    /\ activation = act
    /\ META = ScaledConfig
    /\ hpc = "call"
    /\ err = ""
    /\ c = NoTensor
    /\ cMem = EmptyMem
    /\ procs = [inst \in {} |-> Ready]
    /\ stored = {}
    /\ probe = NoProbe

Next ==
  \/ Call
  \/ \E inst \in DOMAIN procs : ProgramSetup(inst)
  \/ \E inst \in DOMAIN procs : ProgramLoop(inst)
  \/ \E inst \in DOMAIN procs : ProgramFault(inst)
  \/ \E inst \in DOMAIN procs : ProgramStore(inst)
  \/ Return

Spec == Init /\ [][Next]_vars

(***************************************************************************)
(* A launch run to completion one instance after the other, every load     *)
(* outside a buffer yielding the byte g and the output buffer starting     *)
(* filled with fill.                                                       *)
(***************************************************************************)
RECURSIVE RunLoop(_, _, _, _, _)
RunLoop(ka, ma, mb, st, g) ==
  IF st.k < num_chunks(ka)
  THEN RunLoop(ka, ma, mb,
               LoopBody(ka, ma, mb, st,
                        [x \in OutOfBufferIn(ka, mb, st) |-> g]), g)
  ELSE st

RunProgram(ka, ma, mb, inst, g) ==
  RunLoop(ka, ma, mb, Setup(ka, inst[1], inst[2]), g)

RECURSIVE RunAll(_, _, _, _, _, _)
RunAll(ka, ma, mb, insts, mc, g) ==
  IF insts = {} THEN mc
  ELSE LET inst == CHOOSE x \in insts : TRUE
       IN RunAll(ka, ma, mb, insts \ {inst},
                 ApplyStore(mc, StoreLanes(ka, RunProgram(ka, ma, mb, inst, g))), g)

SeqLaunch(ka, ma, mb, insts, size, fill, g) ==
  RunAll(ka, ma, mb, insts, [x \in 0 .. size - 1 |-> fill], g)

(***************************************************************************)
(* Reading the tensors by index.                                           *)
(***************************************************************************)
Returned == hpc = "returned"

AElem(bi, m, k) == aMem[Offset(a, <<bi, m, k>>)]

BUnit(n, u) == bMem[Offset(b, <<n, u>>)]

CElem(bi, m, n) == cMem[Offset(c, <<bi, m, n>>)]

Batches == 0 .. a.shape[1] - 1

Rows == 0 .. a.shape[2] - 1

Cols == 0 .. b.shape[1] - 1

\* the 2-bit code at bits [2p, 2p+1] of the unit's 8-bit pattern
CodeAt(unit, p) == ((unit % 256) \div Pow2(2 * p)) % 4

Ternary(code) == CASE code = 0 -> 0 [] code = 1 -> 1 [] code = 2 -> -1 [] OTHER -> code

\* the weight t(n, k) that B_packed encodes
Weight(n, k) == Ternary(CodeAt(BUnit(n, k \div 4), k % 4))

Reference(bi, m, n) ==
  SumFn([k \in 0 .. a.shape[3] - 1 |-> AElem(bi, m, k) * Weight(n, k)], a.shape[3])

(***************************************************************************)
(* C1.  Reference equivalence: once batched_bitmat(A, B_packed) has        *)
(* returned (n_bits = 4, K a positive multiple of 4, any Batch, M, N >= 1, *)
(* multiples of the tile sizes or not), every C[b, m, n] equals the sum    *)
(* over k < K of A[b, m, k] * t(n, k), t being the code at position k mod  *)
(* 4 of B_packed[n, k div 4] decoded 0 -> 0, 1 -> +1, 2 -> -1.             *)
(***************************************************************************)
C1_ReferenceEquivalence ==
  (Returned /\ int_per_2_bits = 4) =>
    \A bi \in Batches, m \in Rows, n \in Cols :
       CElem(bi, m, n) = Reference(bi, m, n)

\* a returned call with two reduction chunks, the last one partial, partial
\* tiles in both directions and an output that is not all zero
C1_Witness ==
  /\ Returned
  /\ a.shape[3] % META.BLOCK_SIZE_K # 0
  /\ a.shape[3] > META.BLOCK_SIZE_K
  /\ a.shape[2] % META.BLOCK_SIZE_M # 0
  /\ b.shape[1] % META.BLOCK_SIZE_N # 0
  /\ \E bi \in Batches, m \in Rows, n \in Cols : CElem(bi, m, n) # 0

(***************************************************************************)
(* C3.  Disjoint, complete write-back: no lane is ever stored with true    *)
(* row >= M or true column >= N, every stored lane lands on the element    *)
(* C[b, m, n] of its own batch, row and column inside the buffer, no       *)
(* address is stored twice, and once every instance of the launch has      *)
(* finished each C[b, m, n] has been stored by exactly one instance.       *)
(***************************************************************************)
LanesOf(bi, m, n) == { l \in stored : l.inst[2] = bi /\ l.row = m /\ l.col = n }

C3_DisjointCompleteWriteBack ==
  /\ \A l \in stored :
       /\ l.row < a.shape[2]
       /\ l.col < b.shape[1]
       /\ l.addr \in DOMAIN cMem
       /\ l.addr = Offset(c, <<l.inst[2], l.row, l.col>>)
  /\ \A l1, l2 \in stored : l1.addr = l2.addr => l1 = l2
  /\ (hpc \in {"launched", "returned"}
        /\ \A inst \in DOMAIN procs : procs[inst].pc = "done") =>
       \A bi \in Batches, m \in Rows, n \in Cols :
          Cardinality({ l.inst : l \in LanesOf(bi, m, n) }) = 1

\* every instance of a launch of four tiles, partial in both directions,
\* has stored
C3_Witness ==
  /\ Returned
  /\ Cardinality(DOMAIN procs) >= 4
  /\ a.shape[2] % META.BLOCK_SIZE_M # 0
  /\ b.shape[1] % META.BLOCK_SIZE_N # 0
  /\ Cardinality(stored) = numel(c.shape)

(***************************************************************************)
(* C4.  Contract violations fail before dispatch: a call whose operands    *)
(* violate a precondition (A not rank 3, B_packed not rank 2,              *)
(* B_packed.shape[-1] * n_bits # A.shape[-1], A or B_packed not            *)
(* contiguous, different devices) goes nowhere but to a contract error; no *)
(* output buffer is allocated, no program instance exists or runs, and no  *)
(* step changes A or B_packed.                                             *)
(***************************************************************************)
ViolatesContract ==
  \/ dim(a) # 3
  \/ dim(b) # 2
  \/ last_dim(b) * int_per_2_bits # last_dim(a)
  \/ ~is_contiguous(a)
  \/ ~is_contiguous(b)
  \/ a.device # b.device

NoDispatch ==
  /\ c = NoTensor
  /\ cMem = EmptyMem
  /\ DOMAIN procs = {}
  /\ stored = {}

C4_ContractViolationsFailBeforeDispatch ==
  /\ [](ViolatesContract =>
          /\ hpc \in {"call", "error"}
          /\ hpc = "error" <=> err # ""
          /\ NoDispatch)
  /\ [][ViolatesContract =>
          /\ hpc' = "error"
          /\ UNCHANGED <<a, b, aMem, bMem>>]_vars

\* a call with operands on different devices has ended in the error
C4_Witness ==
  /\ hpc = "error"
  /\ a.device # b.device
  /\ dim(a) = 3 /\ dim(b) = 2 /\ is_contiguous(a) /\ is_contiguous(b)

(***************************************************************************)
(* C5.  Batch slice independence: once the call has returned, slice C[b]   *)
(* equals the output of the call made on A[b] alone (a one-batch tensor    *)
(* holding slice b) with the same B_packed, the view of B the kernel got   *)
(* has batch stride 0, and an all-zero slice A[b] gives an all-zero slice  *)
(* C[b].                                                                   *)
(***************************************************************************)
SliceTensor == [a EXCEPT !.shape[1] = 1]

SliceMemory(bi) ==
  [x \in 0 .. a.shape[2] * a.shape[3] - 1 |-> aMem[x + bi * a.stride[1]]]

SingleBatchOutput(bi, fill, g) ==
  SeqLaunch(kernel_args(SliceTensor, b, c_alloc(SliceTensor, b), int_per_2_bits,
                        activation, META),
            SliceMemory(bi), bMem, grid(SliceTensor, b, META),
            numel(c_alloc(SliceTensor, b).shape), fill, g)

C5_BatchSliceIndependence ==
  Returned =>
    \A bi \in Batches :
       /\ KArgs.stride_batch_b = 0
       /\ \A fill \in UninitFill, g \in GarbageBytes :
            [x \in 0 .. a.shape[2] * b.shape[1] - 1 |-> cMem[x + bi * c.stride[1]]]
              = SingleBatchOutput(bi, fill, g)
       /\ (\A m \in Rows, k \in 0 .. a.shape[3] - 1 : AElem(bi, m, k) = 0) =>
            \A m \in Rows, n \in Cols : CElem(bi, m, n) = 0

\* a returned call of two batches, slice 0 all zero, slice 1 with a
\* non-zero output
C5_Witness ==
  /\ Returned
  /\ a.shape[1] = 2
  /\ \A m \in Rows, k \in 0 .. a.shape[3] - 1 : AElem(0, m, k) = 0
  /\ \E m \in Rows, n \in Cols : CElem(1, m, n) # 0

(***************************************************************************)
(* C6.  Order independence and determinism: whatever the interleaving of   *)
(* the instances' steps, whatever the allocated buffer held and whatever   *)
(* the loads outside a buffer returned, a launch that completes leaves in  *)
(* C exactly what running the instances one after the other leaves.        *)
(***************************************************************************)
C6_OrderIndependence ==
  Returned =>
    \A fill \in UninitFill, g \in GarbageBytes :
       cMem = SeqLaunch(KArgs, aMem, bMem, DOMAIN procs, numel(c.shape), fill, g)

\* a returned launch of four instances whose output is not all zero
C6_Witness ==
  /\ Returned
  /\ Cardinality(DOMAIN procs) = 4
  /\ \E x \in DOMAIN cMem : cMem[x] # 0

(***************************************************************************)
(* C7.  Inert activation tag: the output of a returned call is the output  *)
(* the same operands give under every other value of the activation        *)
(* argument.                                                               *)
(***************************************************************************)
C7_InertActivation ==
  Returned =>
    \A act \in Activations :
       cMem = SeqLaunch([KArgs EXCEPT !.ACTIVATION = act], aMem, bMem,
                        DOMAIN procs, numel(c.shape),
                        CHOOSE f \in UninitFill : TRUE,
                        CHOOSE g \in GarbageBytes : TRUE)

\* a call with activation "leaky_relu" has returned a negative element
C7_Witness ==
  /\ Returned
  /\ activation = "leaky_relu"
  /\ \E x \in DOMAIN cMem : cMem[x] < 0

(***************************************************************************)
(* The unpack step on its own: every 8-bit unit at every row of the        *)
(* reduction block.                                                        *)
(***************************************************************************)
NoCall ==
  /\ hpc = "idle"
  /\ err = ""
  /\ c = NoTensor
  /\ cMem = EmptyMem
  /\ aMem = EmptyMem
  /\ bMem = EmptyMem
  /\ procs = [inst \in {} |-> Ready]
  /\ stored = {}
  /\ activation = ""

InitDecode ==
  /\ NoCall
  /\ a = NoTensor
  /\ b = NoTensor
  /\ int_per_2_bits = DefaultNBits
  /\ META = KernelConfig
  /\ \E unit \in -128 .. 127, kk \in 0 .. KernelConfig.BLOCK_SIZE_K - 1 :
       probe = [kind |-> "decode", unit |-> unit, kk |-> kk, done |-> FALSE,
                result |-> 0]

\* lines 96, 114, 116 on one loaded unit
Decode ==
  /\ probe.kind = "decode"
  /\ ~probe.done
  /\ probe' = [probe EXCEPT
                 !.done = TRUE,
                 !.result = unpack(probe.unit,
                                   shifter([n_bits |-> int_per_2_bits], probe.kk))]
  /\ UNCHANGED <<inputs, hpc, err, c, cMem, procs, stored>>

SpecDecode == InitDecode /\ [][Decode]_vars

MapConfigs ==
  {KernelConfig}
    \cup { [ScaledConfig EXCEPT !.GROUP_SIZE_M = g] : g \in 1 .. MaxGroupM }

Extents(block, tiles) ==
  { block * (r - 1) + rem : r \in 1 .. tiles, rem \in {1, block - 1, block} }
    \ {0}

InitMap ==
  /\ NoCall
  /\ int_per_2_bits = DefaultNBits
  /\ \E meta \in MapConfigs :
       \E m \in Extents(meta.BLOCK_SIZE_M, MaxTileRows),
          n \in Extents(meta.BLOCK_SIZE_N, MaxTileCols) :
         /\ META = meta
         /\ a = ATensor("plain", 1, m, DefaultNBits)
         /\ b = BTensor("plain", n, 1, "cuda:0")
  /\ probe = [kind |-> "map", done |-> FALSE, pid |-> 0, pid_m |-> 0, pid_n |-> 0]

MapArgs == kernel_args(a, b, c_alloc(a, b), int_per_2_bits, activation, META)

\* lines 60-70 in the instance pid of the grid
MapPid ==
  /\ probe.kind = "map"
  /\ ~probe.done
  /\ \E inst \in grid(a, b, META) :
       probe' = [probe EXCEPT !.done = TRUE, !.pid = inst[1],
                              !.pid_m = pid_m(MapArgs, inst[1]),
                              !.pid_n = pid_n(MapArgs, inst[1])]
  /\ UNCHANGED <<inputs, hpc, err, c, cMem, procs, stored>>

SpecMap == InitMap /\ [][MapPid]_vars

(***************************************************************************)
(* C8.  Grouped tile mapping is a bijection: every pid of the grid gets    *)
(* pid_m < ceil(M / BLOCK_SIZE_M) and pid_n < ceil(N / BLOCK_SIZE_N), and  *)
(* no other pid of the grid gets the same tile (the grid has as many pids  *)
(* as there are tiles, so the map is onto as well).                        *)
(***************************************************************************)
C8_TileMappingBijection ==
  (probe.kind = "map" /\ probe.done) =>
    /\ probe.pid_m \in 0 .. num_pid_m(MapArgs) - 1
    /\ probe.pid_n \in 0 .. num_pid_n(MapArgs) - 1
    /\ Cardinality(grid(a, b, META)) = num_pid_m(MapArgs) * num_pid_n(MapArgs)
    /\ \A inst \in grid(a, b, META) :
         inst[1] # probe.pid =>
           <<pid_m(MapArgs, inst[1]), pid_n(MapArgs, inst[1])>>
             # <<probe.pid_m, probe.pid_n>>

\* a pid of a clamped last group, where pid mod group_size_m differs from
\* the index within the group mod group_size_m, has been mapped
C8_Witness ==
  /\ probe.kind = "map" /\ probe.done
  /\ META = KernelConfig
  /\ first_pid_m(MapArgs, probe.pid) > 0
  /\ group_size_m(MapArgs, probe.pid) < META.GROUP_SIZE_M
  /\ probe.pid % group_size_m(MapArgs, probe.pid)
       # (probe.pid % num_pid_in_group(MapArgs)) % group_size_m(MapArgs, probe.pid)

(***************************************************************************)
(* The addressing of packed B on its own: one instance walking the         *)
(* reduction chunks of a call that passes validation, with the configured  *)
(* meta-parameters and every packing ratio 1..4.                           *)
(***************************************************************************)
InitAddr ==
  /\ NoCall
  /\ META = KernelConfig
  /\ \E nbits \in 1 .. 4, kp \in 1 .. MaxPackedCols,
        n \in {1, KernelConfig.BLOCK_SIZE_N + 1} :
       /\ int_per_2_bits = nbits
       /\ a = ATensor("plain", 1, 1, kp * nbits)
       /\ b = BTensor("plain", n, kp, "cuda:0")
  /\ probe = [kind |-> "addr", pc |-> "ready", pid_n |-> 0, k |-> 0, b_adv |-> 0]

\* lines 60-96: the instance's column tile and its pointers into B
AddrSetup ==
  /\ probe.kind = "addr"
  /\ probe.pc = "ready"
  /\ FailedAssert(a, b, int_per_2_bits) = ""
  /\ \E inst \in grid(a, b, META) :
       probe' = [probe EXCEPT !.pc = "loop", !.pid_n = pid_n(MapArgs, inst[1])]
  /\ UNCHANGED <<inputs, hpc, err, c, cMem, procs, stored>>

\* lines 104-125: on to the next reduction chunk
AddrChunk ==
  /\ probe.kind = "addr"
  /\ probe.pc = "loop"
  /\ probe.k < num_chunks(MapArgs)
  /\ probe' = [probe EXCEPT !.k = @ + 1, !.b_adv = @ + b_step(MapArgs)]
  /\ UNCHANGED <<inputs, hpc, err, c, cMem, procs, stored>>

SpecAddr == InitAddr /\ [][AddrSetup \/ AddrChunk]_vars

Loading == probe.kind = "addr" /\ probe.pc = "loop" /\ probe.k < num_chunks(MapArgs)

(***************************************************************************)
(* C9.  Packed addressing stays aligned across reduction chunks for every  *)
(* accepted packing ratio n_bits in 1..4: in chunk k the row kk of the B   *)
(* block with logical index kx = k * BLOCK_SIZE_K + kk < K reads           *)
(* B_packed[n, kx div n_bits] and shifts it by 2 * (kx mod n_bits).        *)
(***************************************************************************)
C9_PackedAddressingAligned ==
  Loading =>
    \A kk \in BlockK(MapArgs), j \in TileCols(MapArgs) :
       LET kx == probe.k * META.BLOCK_SIZE_K + kk
       IN kx < a.shape[3] =>
            /\ b_ptrs(MapArgs, probe.pid_n, kk, j, probe.b_adv)
                 = Offset(b, <<offs_bn(MapArgs, probe.pid_n, j), kx \div int_per_2_bits>>)
            /\ shifter(MapArgs, kk) = 2 * (kx % int_per_2_bits)

(***************************************************************************)
(* C10.  Loads of packed B stay in bounds: with n_bits = 4 every address   *)
(* an instance reads from packed B in any reduction chunk lies inside the  *)
(* N * (K / 4) elements of B_packed.                                       *)
(***************************************************************************)
C10_PackedLoadsInBounds ==
  (Loading /\ int_per_2_bits = 4) =>
    \A kk \in BlockK(MapArgs), j \in TileCols(MapArgs) :
       b_ptrs(MapArgs, probe.pid_n, kk, j, probe.b_adv) \in 0 .. numel(b.shape) - 1

====
